---- MODULE Spec2Model ----
(***************************************************************************)
(* Live voice session controller of src/App.tsx: the transcript            *)
(* accumulator, the playback scheduler and the session state machine, as   *)
(* driven by user actions, React's effect phase, server messages and       *)
(* playback-completion callbacks.                                          *)
(*                                                                         *)
(* Text is a sequence of symbols, one symbol per transcription delta.  A   *)
(* symbol says whether the delta's text is all whitespace (the only thing  *)
(* the code looks at) and is labelled with where the delta came from: the  *)
(* channel it arrived on and the number of endSession() calls before it.   *)
(* String concatenation is sequence concatenation.                         *)
(*                                                                         *)
(* Every callback is one step.  That includes the async message handler:   *)
(* its only await (line 169) is on decodeAudioData, which contains no      *)
(* await of its own, so the promise is settled when it is returned and the *)
(* rest of the handler runs as a microtask of the same task, before any    *)
(* other callback.  startLiveSession() awaits the device and the transport *)
(* and is several steps.  React applies a setState at once, but runs the   *)
(* effect that copies state into stateRef as a step of its own.            *)
(***************************************************************************)
EXTENDS Integers, Sequences, FiniteSets

\* ---------------------------------------------------------------- bounds
MaxStarts == 3
MaxSoloStarts == 1
MaxText == 2
MaxTurns == 2
MaxChunks == 3
MaxClock == 2
SampleDen == 3
MaxFrame == 2
MaxRestarts == 2
MaxSends == 2
Durs == {1, 2}

VARIABLES
  state,                    \* useState<SessionState>            (App.tsx:11)
  stateRef,                 \* stateRef.current                  (App.tsx:25)
  activeItem,               \* useState<TranscriptItem | null>   (App.tsx:13)
  chatHistory,              \* useState<ChatMessage[]>           (App.tsx:16)
  currentTranscriptionRef,  \* currentTranscriptionRef.current   (App.tsx:26)
  currentSessionTranscript, \* currentSessionTranscript.current  (App.tsx:27)
  streamRef,                \* streamRef.current, 0 = null       (App.tsx:32)
  sessionRef,               \* sessionRef.current, 0 = null      (App.tsx:33)
  nextStartTimeRef,         \* nextStartTimeRef.current          (App.tsx:34)
  sourcesRef,               \* sourcesRef.current, ids of nodes  (App.tsx:35)
  toast,                    \* useState<{message} | null>        (App.tsx:14)
  sessions,                 \* useState<ChatSession[]>           (App.tsx:17)
  activeSessionId,          \* useState<string | null>, 0 = null (App.tsx:18)
  \* ---- environment
  clock,                    \* outCtx.currentTime
  pc,                       \* position of each startLiveSession() call
  sessOpen,                 \* transport sessions that are open
  streamsLive,              \* capture streams whose tracks are live
  nodes,                    \* every AudioBufferSourceNode created so far
  endable,                  \* nodes whose 'ended' event has not fired yet
  processors,               \* sessions whose onopen created a scriptProcessor
  frame,                    \* the last buffer handed to sendRealtimeInput
  inflight,                 \* handleSendMessage calls awaiting their reply
  sends,                    \* number of handleSendMessage calls so far
  \* ---- history (observation only, never read by an action's effect)
  pendingUser,              \* input deltas received since the last flush
  pendingAi,                \* output deltas received since the last flush
  seenUser,                 \* pendingUser as the last handler run saw it
  seenAi,                   \* pendingAi as the last handler run saw it
  emitted,                  \* setActiveItem calls of the last handler run
  pushed,                   \* turns pushed by the last handler run
  stoppedSince,             \* a stop-all ran since the last node was started
  era,                      \* number of endSession() calls so far
  last                      \* the last operation and what it saw

vars == <<state, stateRef, activeItem, chatHistory, currentTranscriptionRef,
          currentSessionTranscript, streamRef, sessionRef, nextStartTimeRef,
          sourcesRef, clock, pc, sessOpen, streamsLive, nodes,
          endable, pendingUser, pendingAi, seenUser, seenAi, emitted,
          pushed, stoppedSince, era, last, toast, processors, sessions,
          activeSessionId, frame, inflight, sends>>

\* ---------------------------------------------------------------- helpers
IDLE == "idle"
LISTENING == "listening"
PAUSED == "paused"
ERROR == "error"

\* toast === null (line 14).
NoToast == "null"

Max(a, b) == IF a >= b THEN a ELSE b

IsBlank(sym) == sym.blank

\* String.prototype.trim(): leading and trailing whitespace removed.
RECURSIVE TrimLeft(_)
TrimLeft(t) == IF t = <<>> THEN <<>>
               ELSE IF IsBlank(Head(t)) THEN TrimLeft(Tail(t)) ELSE t

RECURSIVE TrimRight(_)
TrimRight(t) == IF t = <<>> THEN <<>>
                ELSE IF IsBlank(t[Len(t)]) THEN TrimRight(SubSeq(t, 1, Len(t) - 1))
                ELSE t

trim(t) == TrimRight(TrimLeft(t))

\* The text of a delta of the given kind ("word" or "blank") that arrives
\* on channel ch ("in" or "out").
DeltaText(kind, ch) == <<[blank |-> kind = "blank", ch |-> ch, era |-> era]>>

Symbols(t) == {t[i] : i \in 1..Len(t)}

\* The inbound messages: any combination of the five optional fields.
\*   inT, outT : "none" | "word" | "blank"     transcription deltas
\*   tc        : turnComplete
\*   mt        : "none"   no modelTurn
\*               "text"   modelTurn whose parts[0] has no inlineData
\*               "bad"    inlineData.data that atob() rejects, or that
\*                        decodes to an odd number of bytes
\*               "ok"     inlineData.data that decodes to dur time units
\*   intr      : interrupted
Messages ==
  {m \in [inT : {"none", "word", "blank"}, outT : {"none", "word", "blank"},
          tc : BOOLEAN, mt : {"none", "text", "bad", "ok"},
          dur : Durs, intr : BOOLEAN] :
     m.mt # "ok" => m.dur = 1}

NumDeltas(m) == (IF m.inT # "none" THEN 1 ELSE 0) + (IF m.outT # "none" THEN 1 ELSE 0)

\* ------------------------------------------------------------------- Init
Init ==
  /\ state = IDLE /\ stateRef = IDLE
  /\ activeItem = <<>> /\ chatHistory = <<>>
  /\ currentTranscriptionRef = <<>> /\ currentSessionTranscript = <<>>
  /\ streamRef = 0 /\ sessionRef = 0
  /\ nextStartTimeRef = 0 /\ sourcesRef = {}
  /\ clock = 0
  /\ pc = [k \in 1..MaxStarts |-> "none"]
  /\ sessOpen = {} /\ streamsLive = {}
  /\ nodes = <<>> /\ endable = {}
  /\ toast = NoToast /\ processors = {}
  /\ sessions = <<>> /\ activeSessionId = 0
  /\ frame = <<>> /\ inflight = {} /\ sends = 0
  /\ pendingUser = <<>> /\ pendingAi = <<>>
  /\ seenUser = <<>> /\ seenAi = <<>>
  /\ emitted = <<>> /\ pushed = <<>>
  /\ stoppedSince = FALSE
  /\ era = 0
  /\ last = [op |-> "other", from |-> IDLE, active |-> FALSE, tc |-> FALSE,
             stop |-> FALSE]

\* ------------------------------------------------ playback scheduler parts
\* stopAllPlayback without line 198.
StopAllKeepsCursor ==
  /\ sourcesRef' = {}
  /\ nextStartTimeRef' = nextStartTimeRef
  /\ stoppedSince' = TRUE

\* stopAllPlayback (lines 195-199): every source stopped, the set cleared,
\* the cursor reset.
StopAllPlayback ==
  /\ sourcesRef' = {}
  /\ nextStartTimeRef' = 0
  /\ stoppedSince' = TRUE

\* Line 168: the cursor is pulled up to the clock before the decode starts.
CursorAtArrival(cursor, now) == Max(cursor, now)

\* Line 175 as `=` instead of `+=`.
NextCursorAssigned(start, dur) == dur

\* Line 175 left out.
NextCursorKept(start, dur) == start

\* Line 175: nextStartTimeRef.current += audioBuffer.duration.
NextCursor(start, dur) == start + dur

\* The node created by lines 170-174 for a buffer of duration dur: it is
\* started with when = cursor while the context clock reads now.
NewNode(cursor, dur, now, afterStop) ==
  [start |-> cursor, dur |-> dur, at |-> now, afterStop |-> afterStop]

\* AudioBufferSourceNode.start(when) plays from max(when, currentTime).
PlaybackEnd(n) == Max(n.start, n.at) + n.dur

\* ------------------------------------------------ transcript accumulator
\* Lines 132-134 and 142-144: both deltas are appended to the one buffer.
AfterInput(buf, m) ==
  IF m.inT # "none" THEN buf \o DeltaText(m.inT, "in") ELSE buf

AfterOutput(buf, m) ==
  IF m.outT # "none" THEN buf \o DeltaText(m.outT, "out") ELSE buf

\* Lines 135-139 and 145-149: the live partials shown by one handler run.
LivePartials(buf, m) ==
  (IF m.inT # "none"
     THEN <<[isAI |-> FALSE, text |-> AfterInput(buf, m)]>> ELSE <<>>)
  \o
  (IF m.outT # "none"
     THEN <<[isAI |-> TRUE, text |-> AfterOutput(AfterInput(buf, m), m)]>>
     ELSE <<>>)

\* Line 156: role: message.serverContent?.modelTurn ? 'ai' : 'user'.
TurnRole(m) == IF m.mt # "none" THEN "ai" ELSE "user"

\* Lines 153-160: the turns pushed at a turnComplete.  The id of a turn is
\* the time of its creation, which the model reads off its coarsest clock:
\* the number of endSession() calls so far.
TurnsPushed(buf, m) ==
  IF m.tc /\ trim(buf) # <<>>
    THEN <<[id |-> era, role |-> TurnRole(m), text |-> buf, isVoice |-> TRUE]>>
    ELSE <<>>

\* Line 165-166: base64Audio is a non-empty string.
HasAudio(m) == m.mt \in {"bad", "ok"}

\* Line 169 with a decoder that accepts every payload.
DecodeNeverThrows(m) == FALSE

\* Line 169: decodeAudio throws (atob) or decodeAudioData rejects (an
\* Int16Array over an odd number of bytes); the handler ends there.
DecodeThrows(m) == m.mt = "bad"

\* ------------------------------------------------------------ bookkeeping
\* What the last step was: the operation, whether it handled a
\* turnComplete, and whether it ran stopAllPlayback.
Did(op, tc, stop) ==
  last' = [op |-> op, from |-> IDLE, active |-> FALSE, tc |-> tc,
           stop |-> stop]

\* The last step was togglePause, invoked in the current state and with the
\* active set empty or not.
DidToggle(stop) ==
  last' = [op |-> "toggle", from |-> state, active |-> sourcesRef # {},
           tc |-> FALSE, stop |-> stop]

\* The last step was endSession, invoked in the current state and with the
\* active set empty or not.
DidEnd ==
  last' = [op |-> "end", from |-> state, active |-> sourcesRef # {},
           tc |-> FALSE, stop |-> TRUE]

\* A step of the environment that no property singles out.
Other == Did("other", FALSE, FALSE)

Quiet ==
  /\ emitted' = <<>> /\ pushed' = <<>>
  /\ seenUser' = <<>> /\ seenAi' = <<>>

\* ------------------------------------------------------- session control
\* Line 97: currentTranscriptionRef.current = "".
ClearedTranscription == <<>>

\* startLiveSession up to the await of getUserMedia (lines 91-100).  The
\* start control is rendered only while state is IDLE (line 410).
StartLiveSession(k) ==
  /\ UNCHANGED <<frame, inflight, sends>>
  /\ UNCHANGED <<sessions, activeSessionId>>
  /\ UNCHANGED <<toast, processors>>
  /\ state = IDLE
  /\ pc[k] = "none" /\ \A j \in 1..(k - 1) : pc[j] # "none"
  /\ state' = LISTENING
  /\ currentSessionTranscript' = <<>>
  /\ currentTranscriptionRef' = ClearedTranscription
  /\ pendingUser' = <<>> /\ pendingAi' = <<>>
  /\ pc' = [pc EXCEPT ![k] = "awaitMedia"]
  /\ Did("start", FALSE, FALSE) /\ Quiet
  /\ UNCHANGED <<stateRef, activeItem, chatHistory, streamRef, sessionRef,
                 nextStartTimeRef, sourcesRef, clock, sessOpen, streamsLive,
                 nodes, endable, stoppedSince, era>>

\* getUserMedia resolves: lines 101-104, the connect call is issued.
MediaGranted(k) ==
  /\ UNCHANGED <<frame, inflight, sends>>
  /\ UNCHANGED <<sessions, activeSessionId>>
  /\ UNCHANGED <<toast, processors>>
  /\ pc[k] = "awaitMedia"
  /\ streamRef' = k
  /\ streamsLive' = streamsLive \cup {k}
  /\ pc' = [pc EXCEPT ![k] = "awaitConnect"]
  /\ Other /\ Quiet
  /\ UNCHANGED <<state, stateRef, activeItem, chatHistory,
                 currentTranscriptionRef, currentSessionTranscript,
                 sessionRef, nextStartTimeRef, sourcesRef, clock, sessOpen,
                 nodes, endable, pendingUser, pendingAi,
                 stoppedSince, era>>

\* Line 190 left out.
StateKeptOnFailure(prev) == prev

\* Line 190: setState(SessionState.ERROR).
StateOnFailure(prev) == ERROR

\* Line 191: showToast("Enable microphone permissions").
ToastOnFailure == "Enable microphone permissions"

\* getUserMedia rejects: the catch of lines 189-192.
MediaDenied(k) ==
  /\ UNCHANGED <<frame, inflight, sends>>
  /\ UNCHANGED <<sessions, activeSessionId>>
  /\ pc[k] = "awaitMedia"
  /\ state' = StateOnFailure(state)
  /\ toast' = ToastOnFailure
  /\ UNCHANGED processors
  /\ pc' = [pc EXCEPT ![k] = "done"]
  /\ Did("fail", FALSE, FALSE) /\ Quiet
  /\ UNCHANGED <<stateRef, activeItem, chatHistory, currentTranscriptionRef,
                 currentSessionTranscript, streamRef, sessionRef,
                 nextStartTimeRef, sourcesRef, clock, sessOpen, streamsLive,
                 nodes, endable, pendingUser, pendingAi,
                 stoppedSince, era>>

\* The transport opens: onopen runs (lines 107-128) and the connect promise
\* resolves (line 188: sessionRef.current = await sessionPromise), in one
\* task.  Messages may arrive from then on.
SessionOpened(k) ==
  /\ UNCHANGED <<frame, inflight, sends>>
  /\ UNCHANGED <<sessions, activeSessionId>>
  /\ pc[k] = "awaitConnect"
  /\ processors' = processors \cup {k}
  /\ UNCHANGED toast
  /\ sessOpen' = sessOpen \cup {k}
  /\ sessionRef' = k
  /\ pc' = [pc EXCEPT ![k] = "done"]
  /\ Other /\ Quiet
  /\ UNCHANGED <<state, stateRef, activeItem, chatHistory,
                 currentTranscriptionRef, currentSessionTranscript, streamRef,
                 nextStartTimeRef, sourcesRef, clock, streamsLive, nodes,
                 endable, pendingUser, pendingAi, stoppedSince, era>>

\* The connect promise rejects: the catch of lines 189-192.
ConnectFailed(k) ==
  /\ UNCHANGED <<frame, inflight, sends>>
  /\ UNCHANGED <<sessions, activeSessionId>>
  /\ pc[k] = "awaitConnect"
  /\ state' = StateOnFailure(state)
  /\ toast' = ToastOnFailure
  /\ UNCHANGED processors
  /\ pc' = [pc EXCEPT ![k] = "done"]
  /\ Did("fail", FALSE, FALSE) /\ Quiet
  /\ UNCHANGED <<stateRef, activeItem, chatHistory, currentTranscriptionRef,
                 currentSessionTranscript, streamRef, sessionRef,
                 nextStartTimeRef, sourcesRef, clock, sessOpen, streamsLive,
                 nodes, endable, pendingUser, pendingAi,
                 stoppedSince, era>>

\* The effect of lines 38-40 runs after the render that follows a setState.
SyncStateRef ==
  /\ UNCHANGED <<frame, inflight, sends>>
  /\ UNCHANGED <<sessions, activeSessionId>>
  /\ UNCHANGED <<toast, processors>>
  /\ stateRef # state
  /\ stateRef' = state
  /\ Other /\ Quiet
  /\ UNCHANGED <<state, activeItem, chatHistory, currentTranscriptionRef,
                 currentSessionTranscript, streamRef, sessionRef,
                 nextStartTimeRef, sourcesRef, clock, pc, sessOpen,
                 streamsLive, nodes, endable, pendingUser,
                 pendingAi, stoppedSince, era>>

\* Line 217 without the test of prev.
ToggledAlwaysPaused(prev) == PAUSED

\* Line 217.
ToggledState(prev) == IF prev = PAUSED THEN LISTENING ELSE PAUSED

\* Line 218 with the test inverted.
StopsOnResume(newState) == newState = LISTENING

\* Line 218: if (newState === SessionState.PAUSED) stopAllPlayback().
StopsOnToggle(newState) == newState = PAUSED

\* togglePause (lines 215-221); its control is rendered while state is not
\* IDLE (lines 410, 468).
TogglePause ==
  /\ UNCHANGED <<frame, inflight, sends>>
  /\ UNCHANGED <<sessions, activeSessionId>>
  /\ UNCHANGED <<toast, processors>>
  /\ state # IDLE
  /\ state' = ToggledState(state)
  /\ IF StopsOnToggle(ToggledState(state))
       THEN StopAllPlayback
       ELSE UNCHANGED <<sourcesRef, nextStartTimeRef, stoppedSince>>
  /\ DidToggle(StopsOnToggle(ToggledState(state))) /\ Quiet
  /\ UNCHANGED <<stateRef, activeItem, chatHistory, currentTranscriptionRef,
                 currentSessionTranscript, streamRef, sessionRef, clock, pc,
                 sessOpen, streamsLive, nodes, endable, pendingUser,
                 pendingAi, era>>

\* Line 224: streamRef.current?.getTracks().forEach(t => t.stop()).
TracksStopped(live, ref) == live \ {ref}

\* Line 225 left out.
SessionLeftOpen(open, ref) == open

\* Line 225: sessionRef.current?.close().
SessionClosed(open, ref) == open \ {ref}

\* endSession (lines 223-237); its control is rendered while state is not
\* IDLE (lines 410, 471).
\* updateSession (App.tsx:62-80): nothing for an empty list; otherwise the
\* session whose id is the activeSessionId the handler holds gets the
\* messages, or, if there is none, a new session is put in front and becomes
\* the active one; otherwise the current activeSessionId stays.  Date.now()
\* as the new id is modelled by the next unused number.
HasSession(prev, active) == \E i \in 1..Len(prev) : prev[i].id = active

NewId(prev) == Len(prev) + 1

SessionsAfterUpdate(prev, active, messages) ==
  IF Len(messages) = 0 THEN prev
  ELSE IF HasSession(prev, active)
    THEN [i \in 1..Len(prev) |->
            IF prev[i].id = active
              THEN [id |-> prev[i].id, messages |-> messages]
              ELSE prev[i]]
    ELSE <<[id |-> NewId(prev), messages |-> messages]>> \o prev

ActiveAfterUpdate(prev, active, current, messages) ==
  IF Len(messages) = 0 \/ HasSession(prev, active) THEN current
  ELSE NewId(prev)

EndSession ==
  /\ UNCHANGED <<frame, inflight, sends>>
  /\ LET newHistory == chatHistory \o currentSessionTranscript
     IN IF Len(currentSessionTranscript) > 0
          THEN /\ sessions' = SessionsAfterUpdate(sessions, activeSessionId,
                                                  newHistory)
               /\ activeSessionId' = ActiveAfterUpdate(sessions,
                                         activeSessionId, activeSessionId,
                                         newHistory)
          ELSE UNCHANGED <<sessions, activeSessionId>>
  /\ UNCHANGED <<toast, processors>>
  /\ state # IDLE
  /\ streamsLive' = TracksStopped(streamsLive, streamRef)
  /\ sessOpen' = SessionClosed(sessOpen, sessionRef)
  /\ StopAllPlayback
  /\ chatHistory' = IF Len(currentSessionTranscript) > 0
                      THEN chatHistory \o currentSessionTranscript
                      ELSE chatHistory
  /\ state' = IDLE
  /\ activeItem' = <<>>
  /\ era' = era + 1
  /\ DidEnd /\ Quiet
  /\ UNCHANGED <<stateRef, currentTranscriptionRef, currentSessionTranscript,
                 streamRef, sessionRef, clock, pc, nodes, endable,
                 pendingUser, pendingAi>>

\* -------------------------------------------------------- message handler
\* onmessage (lines 129-179).
OnMessage(m) ==
  /\ UNCHANGED <<frame, inflight, sends>>
  /\ UNCHANGED <<sessions, activeSessionId>>
  /\ UNCHANGED <<toast, processors>>
  /\ sessOpen # {}
  /\ Len(currentTranscriptionRef) + NumDeltas(m) <= MaxText
  /\ Len(currentSessionTranscript) < MaxTurns
  /\ m.mt = "ok" => Len(nodes) < MaxChunks
  /\ UNCHANGED <<state, stateRef, chatHistory, streamRef, sessionRef, clock,
                 pc, sessOpen, streamsLive, era>>
  /\ IF stateRef = PAUSED
       THEN \* line 130
            /\ Did("ignored", FALSE, FALSE) /\ Quiet
            /\ UNCHANGED <<activeItem, currentTranscriptionRef,
                           currentSessionTranscript, nextStartTimeRef,
                           sourcesRef, nodes, endable, pendingUser, pendingAi,
                           stoppedSince>>
       ELSE LET buf == AfterOutput(AfterInput(currentTranscriptionRef, m), m)
                shown == LivePartials(currentTranscriptionRef, m)
                u == IF m.inT # "none"
                       THEN pendingUser \o DeltaText(m.inT, "in")
                       ELSE pendingUser
                a == IF m.outT # "none"
                       THEN pendingAi \o DeltaText(m.outT, "out")
                       ELSE pendingAi
                start == CursorAtArrival(nextStartTimeRef, clock)
                id == Len(nodes) + 1
                \* line 178 is reached and finds the flag set
                stops == m.intr /\ ~(HasAudio(m) /\ DecodeThrows(m))
            IN
            \* lines 132-163
            /\ emitted' = shown
            /\ pushed' = TurnsPushed(buf, m)
            /\ currentSessionTranscript' =
                 currentSessionTranscript \o TurnsPushed(buf, m)
            /\ currentTranscriptionRef' = IF m.tc THEN <<>> ELSE buf
            /\ activeItem' = IF m.tc THEN <<>>
                             ELSE IF shown # <<>> THEN <<shown[Len(shown)]>>
                             ELSE activeItem
            /\ seenUser' = u /\ seenAi' = a
            /\ pendingUser' = IF m.tc THEN <<>> ELSE u
            /\ pendingAi' = IF m.tc THEN <<>> ELSE a
            /\ Did("message", m.tc, stops)
            \* lines 165-177
            /\ IF HasAudio(m) /\ ~DecodeThrows(m)
                 THEN /\ nodes' = Append(nodes,
                                         NewNode(start, m.dur, clock,
                                                 stoppedSince))
                      /\ endable' = endable \cup {id}
                 ELSE UNCHANGED <<nodes, endable>>
            \* line 178 after lines 165-177
            /\ IF stops
                 THEN StopAllPlayback
                 ELSE IF HasAudio(m) /\ DecodeThrows(m)
                   THEN /\ nextStartTimeRef' = start
                        /\ UNCHANGED <<sourcesRef, stoppedSince>>
                 ELSE IF HasAudio(m)
                   THEN /\ nextStartTimeRef' = NextCursor(start, m.dur)
                        /\ sourcesRef' = sourcesRef \cup {id}
                        /\ stoppedSince' = FALSE
                 ELSE UNCHANGED <<sourcesRef, nextStartTimeRef, stoppedSince>>

\* The listener clearing the whole set.
AfterEndedClears(active, id) == {}

\* Line 173: sourcesRef.current.delete(source).
AfterEnded(active, id) == active \ {id}

\* The 'ended' listener of line 173, fired once per node: when the node
\* has played to its end or after it was stopped.
OnEnded(id) ==
  /\ UNCHANGED <<frame, inflight, sends>>
  /\ UNCHANGED <<sessions, activeSessionId>>
  /\ UNCHANGED <<toast, processors>>
  /\ id \in endable
  /\ id \notin sourcesRef \/ clock >= PlaybackEnd(nodes[id])
  /\ sourcesRef' = AfterEnded(sourcesRef, id)
  /\ endable' = endable \ {id}
  /\ Other /\ Quiet
  /\ UNCHANGED <<state, stateRef, activeItem, chatHistory,
                 currentTranscriptionRef, currentSessionTranscript, streamRef,
                 sessionRef, nextStartTimeRef, clock, pc, sessOpen,
                 streamsLive, nodes, pendingUser, pendingAi,
                 stoppedSince, era>>

\* The audio context's clock advances.
Tick ==
  /\ UNCHANGED <<frame, inflight, sends>>
  /\ UNCHANGED <<sessions, activeSessionId>>
  /\ UNCHANGED <<toast, processors>>
  /\ clock < MaxClock
  /\ clock' = clock + 1
  /\ UNCHANGED <<state, stateRef, activeItem, chatHistory,
                 currentTranscriptionRef, currentSessionTranscript, streamRef,
                 sessionRef, nextStartTimeRef, sourcesRef, pc, sessOpen,
                 streamsLive, nodes, endable, pendingUser,
                 pendingAi, seenUser, seenAi, emitted, pushed, stoppedSince,
                 era, last>>

\* The timer of line 44 fires: setToast(null).
ToastExpired ==
  /\ UNCHANGED <<frame, inflight, sends>>
  /\ UNCHANGED <<sessions, activeSessionId>>
  /\ toast # NoToast
  /\ toast' = NoToast
  /\ Other /\ Quiet
  /\ UNCHANGED <<state, stateRef, activeItem, chatHistory,
                 currentTranscriptionRef, currentSessionTranscript, streamRef,
                 sessionRef, nextStartTimeRef, sourcesRef, clock, pc, sessOpen,
                 streamsLive, nodes, endable, processors, pendingUser,
                 pendingAi, stoppedSince, era>>

\* The transport of session k fails or is closed by the server.  The
\* callbacks given to live.connect (lines 106-180) are onopen and onmessage
\* only: no code of the controller runs.
TransportClosed(k) ==
  /\ UNCHANGED <<frame, inflight, sends>>
  /\ UNCHANGED <<sessions, activeSessionId>>
  /\ k \in sessOpen
  /\ sessOpen' = sessOpen \ {k}
  /\ last' = [op |-> "close", from |-> state, active |-> FALSE,
              tc |-> FALSE, stop |-> FALSE]
  /\ Quiet
  /\ UNCHANGED <<state, stateRef, activeItem, chatHistory,
                 currentTranscriptionRef, currentSessionTranscript, streamRef,
                 sessionRef, nextStartTimeRef, sourcesRef, toast, clock, pc,
                 streamsLive, nodes, endable, processors, pendingUser,
                 pendingAi, stoppedSince, era>>

\* Line 112: if (stateRef.current !== SessionState.LISTENING) return.
PassesGate(ref, st) == ref = LISTENING

\* onaudioprocess of the scriptProcessor that session k's onopen created
\* (lines 111-123): behind the gate the samples are converted and handed to
\* sendRealtimeInput ("frame"), otherwise the callback returns ("dropped").
\* Nothing is kept from one callback to the next.  The node is never
\* disconnected, so the callback goes on firing after endSession.
\* Capture samples are the rationals n / SampleDen of [-1, 1], written as
\* their numerator n; a capture buffer is a short sequence of them.
Samples == (0 - SampleDen)..SampleDen

Buffers == UNION {[1..n -> Samples] : n \in 1..MaxFrame}

SilentBuffers == {<<0>>}

Scale == 32768

\* The store into an Int16Array element (App.tsx:116): the number is
\* truncated toward zero and then reduced modulo 2^16 into -32768..32767.
TruncDiv(a, b) == IF a >= 0 THEN a \div b ELSE 0 - ((0 - a) \div b)

ToInt16(x) == LET m == x % 65536 IN IF m >= 32768 THEN m - 65536 ELSE m

\* inputData[i] * 32768 for the sample n / SampleDen, stored in int16[i].
Int16Of(n) == ToInt16(TruncDiv(n * Scale, SampleDen))

Int16Array(inputData) == [i \in 1..Len(inputData) |-> Int16Of(inputData[i])]

OnAudioProcess(k, inputData) ==
  /\ UNCHANGED <<inflight, sends>>
  /\ UNCHANGED <<sessions, activeSessionId>>
  /\ k \in processors
  /\ frame' = IF PassesGate(stateRef, state)
                THEN [input |-> inputData, int16 |-> Int16Array(inputData)]
                ELSE frame
  /\ last' = [op |-> IF PassesGate(stateRef, state) THEN "frame" ELSE "dropped",
              from |-> state, active |-> FALSE, tc |-> FALSE, stop |-> FALSE]
  /\ Quiet
  /\ UNCHANGED <<state, stateRef, activeItem, chatHistory,
                 currentTranscriptionRef, currentSessionTranscript, streamRef,
                 sessionRef, nextStartTimeRef, sourcesRef, toast, clock, pc,
                 sessOpen, streamsLive, nodes, endable, processors,
                 pendingUser, pendingAi, stoppedSince, era>>

\* What the voice controller's variables do during a step of the text chat.
VoiceUnchanged ==
  UNCHANGED <<state, stateRef, activeItem, currentTranscriptionRef,
              currentSessionTranscript, streamRef, sessionRef,
              nextStartTimeRef, sourcesRef, toast, clock, pc, sessOpen,
              streamsLive, nodes, endable, processors, pendingUser, pendingAi,
              stoppedSince, era, frame>>

\* The n-th typed message and the reply to it: Date.now() as the id is
\* modelled by n, the text by one symbol.
UserEntry(n) ==
  [id |-> n, role |-> "user",
   text |-> <<[blank |-> FALSE, ch |-> "typed", era |-> n]>>, isVoice |-> FALSE]

AiEntry(n) ==
  [id |-> n, role |-> "ai",
   text |-> <<[blank |-> FALSE, ch |-> "reply", era |-> n]>>, isVoice |-> FALSE]

\* handleSendMessage up to its await (lines 201-209), for a non-blank input;
\* the input row is rendered in the idle state only (line 410).  The call
\* keeps the history it built and the activeSessionId of its render.
HandleSendMessage ==
  /\ state = IDLE
  /\ sends < MaxSends
  /\ LET n == sends + 1
         updatedHistory == chatHistory \o <<UserEntry(n)>>
     IN /\ chatHistory' = updatedHistory
        /\ inflight' = inflight \cup {[n |-> n, updatedHistory |-> updatedHistory,
                                       activeSessionId |-> activeSessionId]}
        /\ sends' = n
  /\ Other /\ Quiet
  /\ VoiceUnchanged
  /\ UNCHANGED <<sessions, activeSessionId>>

\* The reply with the history rebuilt from what the call held.
FinalHistory(call) == call.updatedHistory \o <<AiEntry(call.n)>>

\* handleSendMessage after its await (lines 210-212): getHinglishResponse
\* always resolves (gemini.ts:11-29), in any state of the controller.
ReplyArrives(n) ==
  /\ \E call \in inflight :
       /\ call.n = n
       /\ LET finalHistory == FinalHistory(call)
          IN /\ chatHistory' = finalHistory
             /\ sessions' = SessionsAfterUpdate(sessions,
                                call.activeSessionId, finalHistory)
             /\ activeSessionId' = ActiveAfterUpdate(sessions,
                                call.activeSessionId, activeSessionId,
                                finalHistory)
       /\ inflight' = inflight \ {call}
  /\ Other /\ Quiet
  /\ VoiceUnchanged
  /\ UNCHANGED sends

\* startNewChat (lines 47-53), reached from the sidebar of the idle screen.
StartNewChat ==
  /\ state = IDLE
  /\ chatHistory' = <<>>
  /\ activeSessionId' = 0
  /\ Did("reset", FALSE, FALSE) /\ Quiet
  /\ VoiceUnchanged
  /\ UNCHANGED <<sessions, inflight, sends>>

\* loadSession (lines 55-60) for the i-th saved session of the sidebar.
LoadSession(i) ==
  /\ state = IDLE
  /\ i \in 1..Len(sessions)
  /\ chatHistory' = sessions[i].messages
  /\ activeSessionId' = sessions[i].id
  /\ Did("reset", FALSE, FALSE) /\ Quiet
  /\ VoiceUnchanged
  /\ UNCHANGED <<sessions, inflight, sends>>

\* User actions, the effect phase and the progress of the startLiveSession()
\* calls numbered in K.
Control(K) ==
  \/ \E k \in K : StartLiveSession(k)
  \/ \E k \in K : MediaGranted(k)
  \/ \E k \in K : MediaDenied(k)
  \/ \E k \in K : SessionOpened(k)
  \/ \E k \in K : ConnectFailed(k)
  \/ SyncStateRef
  \/ TogglePause
  \/ EndSession

\* The playback device: nodes end, time passes.
Playback ==
  \/ \E id \in 1..MaxChunks : OnEnded(id)
  \/ Tick

Next ==
  \/ Control(1..MaxStarts)
  \/ \E m \in Messages : OnMessage(m)
  \/ Playback
  \/ \E k \in 1..MaxStarts : TransportClosed(k)
  \/ \E k \in 1..MaxStarts : \E b \in Buffers : OnAudioProcess(k, b)
  \/ ToastExpired
  \/ HandleSendMessage
  \/ \E n \in 1..MaxSends : ReplyArrives(n)
  \/ StartNewChat
  \/ \E i \in 1..(MaxSends + MaxStarts) : LoadSession(i)

Spec == Init /\ [][Next]_vars

\* The controller fed with messages that carry no audio payload and no
\* interruption, over the first MaxSoloStarts voice sessions: the transcript
\* accumulator on its own.
TranscriptMessages ==
  {m \in Messages : m.mt \in {"none", "text"} /\ ~m.intr}

NextTranscript ==
  \/ Control(1..MaxSoloStarts)
  \/ \E m \in TranscriptMessages : OnMessage(m)

SpecTranscript == Init /\ [][NextTranscript]_vars

\* The controller over MaxStarts voice sessions, fed with the user's words
\* and turn boundaries only: what becomes of the transcript from one session
\* to the next.
DiscardMessages ==
  {m \in TranscriptMessages :
     m.inT # "blank" /\ m.outT = "none" /\ m.mt = "none"}

NextDiscard ==
  \/ Control(1..MaxStarts)
  \/ \E m \in DiscardMessages : OnMessage(m)

SpecDiscard == Init /\ [][NextDiscard]_vars

\* The controller fed with messages that carry no transcription, over the
\* first MaxSoloStarts voice sessions: the playback scheduler on its own.
PlaybackMessages ==
  {m \in Messages : m.inT = "none" /\ m.outT = "none" /\ ~m.tc /\ m.mt # "text"}

NextPlayback ==
  \/ Control(1..MaxSoloStarts)
  \/ \E m \in PlaybackMessages : OnMessage(m)
  \/ Playback

SpecPlayback == Init /\ [][NextPlayback]_vars

\* The same with every decodable chunk one time unit long: the scheduler's
\* bookkeeping on its own.
SchedulerMessages == {m \in PlaybackMessages : m.dur = 1}

NextScheduler ==
  \/ Control(1..MaxSoloStarts)
  \/ \E m \in SchedulerMessages : OnMessage(m)
  \/ Playback

SpecScheduler == Init /\ [][NextScheduler]_vars

\* The controller over the first MaxSoloStarts voice sessions with the whole
\* environment of a session's life: the transport may close, the capture
\* callback fires, the toast timer runs; the messages carry at most one
\* word of the user and one audio chunk of unit length.
LifecycleMessages ==
  {m \in Messages : /\ m.inT \in {"none", "word"} /\ m.outT = "none"
                    /\ ~m.tc /\ m.mt \in {"none", "ok"} /\ m.dur = 1
                    /\ ~m.intr}

NextLifecycle ==
  \/ Control(1..MaxSoloStarts)
  \/ \E k \in 1..MaxSoloStarts : TransportClosed(k)
  \/ \E k \in 1..MaxSoloStarts : \E b \in SilentBuffers : OnAudioProcess(k, b)
  \/ ToastExpired
  \/ \E m \in LifecycleMessages : OnMessage(m)

SpecLifecycle == Init /\ [][NextLifecycle]_vars

\* The lifecycle over MaxRestarts voice sessions, without transport
\* closures: what a session that was ended does to the next one.
NextRestart ==
  \/ Control(1..MaxRestarts)
  \/ \E k \in 1..MaxRestarts : \E b \in SilentBuffers : OnAudioProcess(k, b)
  \/ \E m \in LifecycleMessages : OnMessage(m)

SpecRestart == Init /\ [][NextRestart]_vars

\* The text chat next to the voice controller: typed messages, their
\* replies, the sidebar, and one voice session that finalizes user turns.
NextChat ==
  \/ Control(1..MaxSoloStarts)
  \/ \E m \in DiscardMessages : OnMessage(m)
  \/ HandleSendMessage
  \/ \E n \in 1..MaxSends : ReplyArrives(n)
  \/ StartNewChat
  \/ \E i \in 1..(MaxSends + MaxSoloStarts) : LoadSession(i)

SpecChat == Init /\ [][NextChat]_vars

\* The controller with the microphone delivering every capture buffer: the
\* capture path on its own.
NextCapture ==
  \/ Control(1..MaxSoloStarts)
  \/ \E k \in 1..MaxSoloStarts : \E b \in Buffers : OnAudioProcess(k, b)

SpecCapture == Init /\ [][NextCapture]_vars

\* ------------------------------------------------------------- properties
\* The last step was a handler run that processed a turnComplete.
Flushed == last.op = "message" /\ last.tc

\* C1: a TurnComplete that arrives when both speakers have non-blank
\* pending text emits exactly two turns, the user turn first, the user
\* turn's text being the input deltas only and the ai turn's text the
\* output deltas only.
C1_UserThenAiTurns ==
  (Flushed /\ trim(seenUser) # <<>> /\ trim(seenAi) # <<>>) =>
     /\ Len(pushed) = 2
     /\ pushed[1].role = "user" /\ pushed[1].text = seenUser
     /\ pushed[2].role = "ai" /\ pushed[2].text = seenAi

\* C2: when deltas arrived on one channel only, the turn finalized by the
\* next TurnComplete has the concatenation of those deltas as its text and
\* that channel's speaker.
C2_TurnIsChannelConcat ==
  Flushed =>
     /\ (trim(seenUser) # <<>> /\ seenAi = <<>>) =>
           /\ Len(pushed) = 1
           /\ pushed[1].text = seenUser /\ pushed[1].role = "user"
     /\ (trim(seenAi) # <<>> /\ seenUser = <<>>) =>
           /\ Len(pushed) = 1
           /\ pushed[1].text = seenAi /\ pushed[1].role = "ai"

\* C3: at a TurnComplete a channel that received no deltas since the last
\* flush produces no turn, and nothing is produced when all the pending text
\* is blank.
C3_SilentChannelNoTurn ==
  Flushed =>
     /\ seenAi = <<>> => \A i \in 1..Len(pushed) : pushed[i].role # "ai"
     /\ seenUser = <<>> => \A i \in 1..Len(pushed) : pushed[i].role # "user"
     /\ (trim(seenUser) = <<>> /\ trim(seenAi) = <<>>) => pushed = <<>>

\* A node that was started with no stop-all since the node before it.
Follows(i) == i > 1 /\ i <= Len(nodes) /\ ~nodes[i].afterStop

\* C4: a chunk that arrives next after another, with no stop-all between
\* them, is scheduled no earlier than the end of the other; the units of the
\* active set do not overlap and are ordered as they arrived.
C4_ConsecutiveNoOverlap ==
  /\ \A i \in 1..Len(nodes) :
        Follows(i) => nodes[i].start >= nodes[i - 1].start + nodes[i - 1].dur
  /\ \A i, j \in sourcesRef :
        i < j => nodes[i].start + nodes[i].dur <= nodes[j].start

\* C4 witness: two chunks scheduled back to back are both in the active set.
C4_Witness ==
  \E i \in sourcesRef : Follows(i) /\ (i - 1) \in sourcesRef

\* C5, over the whole session: the scheduled start times are
\* non-decreasing in arrival order.
C5_StartsNonDecreasing ==
  \A i, j \in 1..Len(nodes) : i < j => nodes[i].start <= nodes[j].start

\* C5, between stop-alls: the scheduled start times are non-decreasing in arrival
\* order among chunks with no stop-all between them.
C5_NonDecreasingBetweenStops ==
  \A i, j \in 1..Len(nodes) :
     (i < j /\ \A k \in (i + 1)..j : ~nodes[k].afterStop) =>
        nodes[i].start <= nodes[j].start

\* C5 witness: three chunks were scheduled with no stop-all between them.
C5_Witness ==
  /\ Len(nodes) >= 3
  /\ \E j \in 3..Len(nodes) : Follows(j) /\ Follows(j - 1)

\* C6: a step that runs stop-all leaves the active set empty and the cursor
\* at 0, and the first chunk scheduled after a stop-all starts at the clock
\* value read when it is scheduled, not at the cursor of before.
C6_StopAllResets ==
  /\ last.stop => sourcesRef = {} /\ nextStartTimeRef = 0
  /\ \A i \in 1..Len(nodes) : nodes[i].afterStop => nodes[i].start = nodes[i].at

\* C6 witness: a chunk was scheduled after a stop-all that had cut off a cursor ahead of
\* the clock.
C6_Witness ==
  \E i \in 2..Len(nodes) :
     /\ nodes[i].afterStop
     /\ nodes[i - 1].start + nodes[i - 1].dur > nodes[i].at

C8_PauseEmptiesActiveSet ==
  (last.op = "toggle" /\ last.from = LISTENING /\ last.active) =>
     sourcesRef = {} /\ nextStartTimeRef = 0

\* C8 witness: pause() has just run in Listening with chunks playing.
C8_Witness ==
  last.op = "toggle" /\ last.from = LISTENING /\ last.active /\ state = PAUSED

\* C9: text that was pending (received, not yet flushed) at an endSession()
\* never comes to be in the chat history: every turn of the history holds
\* only text received since the last endSession() before its TurnComplete.
C9_NoDiscardedTextInHistory ==
  \A i \in 1..Len(chatHistory) :
     \A sym \in Symbols(chatHistory[i].text) : sym.era = chatHistory[i].id

\* C10: a live partial shown for an input delta is the pending user text and
\* one shown for an output delta is the pending ai text.
C10_LivePartialIsOwnChannel ==
  \A i \in 1..Len(emitted) :
     emitted[i].text = IF emitted[i].isAI THEN seenAi ELSE seenUser

C12_OneOpenSession == Cardinality(sessOpen) <= 1

\* C13: right after endSession invoked in Listening or Paused the state is
\* Idle, the tracks of the capture stream are stopped, the transport session
\* is closed, the active set is empty with the cursor at 0 and the live
\* partial is cleared.
C13_EndReleasesSession ==
  (last.op = "end" /\ last.from \in {LISTENING, PAUSED}) =>
     /\ state = IDLE
     /\ streamRef \notin streamsLive
     /\ sessionRef \notin sessOpen
     /\ sourcesRef = {} /\ nextStartTimeRef = 0
     /\ activeItem = <<>>

\* C13 witness: endSession has just run in Listening, with a stream acquired,
\* a session opened and chunks in the active set.
C13_Witness ==
  /\ last.op = "end" /\ last.from = LISTENING /\ last.active
  /\ streamRef # 0 /\ sessionRef # 0

\* C14: togglePause invoked in Listening yields Paused, invoked in Paused
\* it yields Listening, and the step leaves the transport sessions, the
\* capture streams and the references to them as they were.
C14_ToggleKeepsSession ==
  [][(last'.op = "toggle" /\ last' # last /\ state \in {LISTENING, PAUSED})
       => /\ state' = IF state = LISTENING THEN PAUSED ELSE LISTENING
          /\ UNCHANGED <<sessOpen, streamsLive, sessionRef, streamRef, pc>>]_vars

\* C14 witness: a session with an open transport and a live stream was
\* paused and has just been resumed.
C14_Witness ==
  /\ last.op = "toggle" /\ last.from = PAUSED /\ state = LISTENING
  /\ sessionRef \in sessOpen /\ streamRef \in streamsLive

\* C15: when startLiveSession fails to acquire the capture device or to
\* open the transport session, the state is Error and a notification is
\* shown: the state is not left at Listening.
C15_FailureGivesError ==
  last.op = "fail" => state = ERROR /\ toast # NoToast

\* C15 witness: the connect of a start() that had acquired its stream has
\* just failed.
C15_Witness ==
  last.op = "fail" /\ streamRef # 0 /\ toast = ToastOnFailure

\* C16: the state that startLiveSession leaves is Listening only if the
\* capture device has been acquired and the transport session has opened.
C16_ListeningOnlyAfterOpen ==
  (last.op = "start" /\ state = LISTENING) =>
     streamsLive # {} /\ sessOpen # {}

\* C17: when the transport fails or is closed by the server while the
\* state is Listening or Paused, the state moves out of Listening and Paused.
C17_CloseLeavesListening ==
  (last.op = "close" /\ last.from \in {LISTENING, PAUSED}) =>
     state \notin {LISTENING, PAUSED}

\* C18: togglePause invoked in Error leaves the state at Error: only a
\* start() brings an errored session back to Listening.
C18_ErrorUntilRestart ==
  (last.op = "toggle" /\ last.from = ERROR) => state = ERROR

\* C19: in the Error state, as long as the user may still start a session,
\* start() can be invoked.
C19_StartFromError ==
  (state = ERROR /\ \E k \in 1..MaxStarts : pc[k] = "none") =>
     ENABLED (\E k \in 1..MaxStarts : StartLiveSession(k))

\* C20: a capture callback hands a frame to the transport only when it
\* fires in the Listening state.
C20_NoFrameUnlessListening ==
  last.op = "frame" => last.from = LISTENING

\* x limited to lo..hi.
Clamp(x, lo, hi) == IF x < lo THEN lo ELSE IF x > hi THEN hi ELSE x

\* C21: every sample s of [-1, 1] in a sent capture buffer was converted to
\* clamp(s * 32768, -32768, 32767); the full-scale sample 1 gives 32767.
\* The code stores s * 32768 into an Int16Array without clamping, so the
\* sample 1 gives 32768, which wraps to -32768.
C21_ConversionClamps ==
  frame # <<>> =>
    \A i \in 1..Len(frame.input) :
      frame.int16[i] =
        Clamp(TruncDiv(frame.input[i] * 32768, SampleDen), 0 - 32768, 32767)

\* C22: a message whose audio payload cannot be decoded is not fatal.  The
\* step that handles it adds no unit (the list of scheduled units and the
\* active set are as before), changes neither the session state nor the
\* open sessions, and leaves the handler ready for every message it was
\* ready for: a decodable chunk that could be scheduled before the bad one
\* can be scheduled after it.
C22_BadAudioNonFatal ==
  [][\A m \in SchedulerMessages :
       m.mt = "bad" /\ OnMessage(m) =>
         /\ nodes' = nodes /\ sourcesRef' = sourcesRef /\ endable' = endable
         /\ state' = state /\ stateRef' = stateRef
         /\ sessOpen' = sessOpen /\ sessionRef' = sessionRef
         /\ \A n \in SchedulerMessages :
              n.mt = "ok" /\ ~n.intr /\ ENABLED OnMessage(n)
                => (ENABLED OnMessage(n))']_vars

\* C22: an undecodable chunk has just been handled while listening: nothing
\* was ever scheduled, yet the cursor stands at the clock, where line 168
\* left it before the decode failed.
C22_Witness ==
  /\ last.op = "message" /\ nodes = <<>> /\ nextStartTimeRef > 0
  /\ state = LISTENING /\ sessOpen # {}

\* C23: whenever a message whose interrupted flag is set has been handled
\* while neither the state nor its mirror is paused, playback is stopped:
\* the active set is empty and the cursor is 0, whatever else the message
\* carries.  The code reaches line 178 only after line 169, so a message
\* whose audio payload fails to decode never has its flag looked at.
C23_InterruptedAlwaysStops ==
  [][\A m \in SchedulerMessages :
       m.intr /\ state # PAUSED /\ stateRef # PAUSED /\ OnMessage(m) =>
         sourcesRef' = {} /\ nextStartTimeRef' = 0]_vars

\* C24: the end-of-playback callback of a unit removes that unit from the
\* active set and nothing else, and leaves the cursor alone; when the unit
\* was already removed by a stop-all, the active set is left as it was.
C24_EndedRemovesOnlyItsUnit ==
  [][\A id \in 1..MaxChunks :
       OnEnded(id) =>
         /\ sourcesRef' = {x \in sourcesRef : x # id}
         /\ nextStartTimeRef' = nextStartTimeRef
         /\ id \notin sourcesRef => sourcesRef' = sourcesRef]_vars

\* C24: a unit has ended naturally while a unit scheduled after it, with no
\* stop-all in between, is still in the active set.
C24_Witness ==
  \E i, j \in 1..Len(nodes) :
    /\ i < j /\ j \in sourcesRef /\ i \notin sourcesRef /\ i \notin endable
    /\ \A k \in (i + 1)..j : ~nodes[k].afterStop

\* C25: the cursor is 0 whenever the last scheduler operation was a
\* stop-all, that is, whenever no unit has been scheduled since.  In the code
\* a chunk that fails to decode has already pulled the cursor up to the
\* clock (line 168) although nothing was scheduled.
C25_CursorZeroAfterStopAll == stoppedSince => nextStartTimeRef = 0

\* A startLiveSession call is between its first line and its end.
StartInProgress == \E k \in 1..MaxStarts : pc[k] \in {"awaitMedia", "awaitConnect"}

\* C26: whenever the state is Idle and no startLiveSession call is between
\* its first line and its end, no transport session is open and no capture
\* stream is live.  In the code endSession releases only what the refs hold
\* at that moment, so a stream or session that a pending startLiveSession
\* obtains afterwards is never released.
C26_IdleHoldsNothing ==
  (state = IDLE /\ ~StartInProgress) => (sessOpen = {} /\ streamsLive = {})

\* The number of startLiveSession calls made so far.
Latest == Cardinality({k \in 1..MaxStarts : pc[k] # "none"})

\* C27: a message delivered by a session that was ended changes neither the
\* pending transcription text, nor the finalized turns, nor the active set
\* of the session started after it.  A session is ended once a later
\* startLiveSession has been called; when every open session is an ended
\* one, the message handled came from an ended session.  In the code the
\* handler of every session writes the same refs, and a session that opened
\* after its endSession is still delivering.
C27_EndedSessionIsInert ==
  [][\A m \in LifecycleMessages :
       /\ sessOpen # {} /\ \A k \in sessOpen : k < Latest
       /\ OnMessage(m)
       => UNCHANGED <<currentTranscriptionRef, currentSessionTranscript,
                      sourcesRef>>]_vars

\* C28: every finalized turn is appended to the chat history once, by the
\* first endSession after it was finalized.  Turns carry the number of
\* endSession calls made before they were finalized, so each endSession
\* appends only turns that carry the current number.  In the code endSession
\* does not empty the list of finalized turns; only startLiveSession does.
C28_TurnsAppendedOnce ==
  [][era' = era + 1 =>
       \A i \in (Len(chatHistory) + 1)..Len(chatHistory') :
         chatHistory'[i].id = era]_vars

\* s is an initial part of t.
IsPrefix(s, t) == Len(s) <= Len(t) /\ \A i \in 1..Len(s) : s[i] = t[i]

\* C29: between resets the chat history only grows at its end: every step
\* other than startNewChat and loadSession leaves the history a prefix of
\* the new history, so no entry is lost.  In the code the reply of
\* handleSendMessage writes back the history the call built before its
\* await, which drops whatever was appended in between.
C29_HistoryAppendOnly ==
  [][\/ StartNewChat
     \/ \E i \in 1..Len(sessions) : LoadSession(i)
     \/ IsPrefix(chatHistory, chatHistory')]_vars

TypeOK ==
  /\ state \in {IDLE, LISTENING, PAUSED, ERROR}
  /\ stateRef \in {IDLE, LISTENING, PAUSED, ERROR}
  /\ sourcesRef \subseteq 1..Len(nodes)
  /\ endable \subseteq 1..Len(nodes)
  /\ Len(nodes) <= MaxChunks
  /\ nextStartTimeRef >= 0
  /\ sends \in 0..MaxSends
  /\ Cardinality(inflight) <= sends
  /\ activeSessionId \in 0..Len(sessions)
  /\ frame # <<>> => Len(frame.int16) = Len(frame.input)

====
